---- MODULE Spec2Model ----
(***************************************************************************)
(* A model of zlib-wrapper/src/main.rs: the two buffer wrappers            *)
(* zlip_compress / zlib_uncompress around zlib's compress / uncompress,    *)
(* and read_gz_file around gzopen / gzeof / gzread / gzclose.              *)
(*                                                                         *)
(* The native routines are the environment.  They are modelled by their    *)
(* contract in zlib.h: the codec emits and parses the zlib container with  *)
(* one stored DEFLATE block and an Adler-32 trailer, the status codes and  *)
(* the in/out length follow compress()/uncompress(), the file handle keeps *)
(* a cursor and the end-of-file indicator.                                 *)
(***************************************************************************)
EXTENDS Integers, Sequences, FiniteSets, TLC

VARIABLES
    \* ---- zlip_compress / zlib_uncompress -------------------------------
    source,     \* the byte sequence handed to zlip_compress
    cpc,        \* position of the caller: "start", "compressed", "uncompressed"
    cret,       \* what the call of zlip_compress produced
    uarg,       \* the arguments of the call of zlib_uncompress
    uret,       \* what the call of zlib_uncompress produced
    \* ---- read_gz_file ---------------------------------------------------
    file,       \* decompressed content of the file behind the handle
    rpc,        \* position in read_gz_file
    handle,     \* "none", "null", "open", "closed"
    pos,        \* native read cursor (bytes already delivered)
    past,       \* native end-of-file indicator (a read came up short)
    stalls,     \* zero-length reads delivered while not at end of file
    buffer,     \* let mut buffer = [0u8; 0x1000]
    contents,   \* let mut contents = String::new()
    bytes_read, \* last value returned by gzread
    last_eof,   \* last value returned by gzeof
    panic,      \* "none" or the panic that ended read_gz_file
    log         \* native calls made so far, each with the handle state it met

cvars == <<source, cpc, cret, uarg, uret>>
rvars == <<file, rpc, handle, pos, past, stalls, buffer, contents,
           bytes_read, last_eof, panic, log>>
vars == <<source, cpc, cret, uarg, uret, file, rpc, handle, pos, past, stalls,
          buffer, contents, bytes_read, last_eof, panic, log>>

(***************************************************************************)
(* Bounds                                                                  *)
(***************************************************************************)
\* longest generated source for zlip_compress
MaxLen == 3
\* longest generated file content for read_gz_file
MaxFileLen == 4
\* size of the read buffer; stands for 0x1000, scaled down so that a file
\* of MaxFileLen bytes spans several chunks
BufferLen == 3
\* how many zero-length reads the handle may deliver before end of file
MaxStalls == 1

\* byte values the generated sources are drawn from
SourceBytes == {0, 97, 255}

\* a cell of a Vec's spare capacity that nothing has written
Uninit == -1

None == [tag |-> "none"]

(***************************************************************************)
(* Helpers on sequences                                                    *)
(***************************************************************************)
Min(a, b) == IF a <= b THEN a ELSE b

Take(s, n) == SubSeq(s, 1, Min(n, Len(s)))

Drop(s, n) == SubSeq(s, n + 1, Len(s))

Fill(n, v) == [i \in 1..n |-> v]

SeqsUpTo(S, n) == UNION {[1..k -> S] : k \in 0..n}

(***************************************************************************)
(* zlib status codes (zlib.h)                                              *)
(***************************************************************************)
Z_OK == 0
Z_DATA_ERROR == -3
Z_MEM_ERROR == -4
Z_BUF_ERROR == -5

(***************************************************************************)
(* The native codec: zlib container, one stored block, Adler-32            *)
(***************************************************************************)
AdlerBase == 65521

RECURSIVE AdlerA(_)
AdlerA(s) == IF s = <<>> THEN 1
             ELSE (AdlerA(Take(s, Len(s) - 1)) + s[Len(s)]) % AdlerBase

RECURSIVE AdlerB(_)
AdlerB(s) == IF s = <<>> THEN 0
             ELSE (AdlerB(Take(s, Len(s) - 1)) + AdlerA(s)) % AdlerBase

\* the four trailer bytes, most significant first
Adler32(s) == <<AdlerB(s) \div 256, AdlerB(s) % 256,
                AdlerA(s) \div 256, AdlerA(s) % 256>>

\* CMF/FLG, then BFINAL=1 BTYPE=00, LEN, NLEN, the bytes, the checksum
Deflate(s) ==
    <<120, 1, 1, Len(s) % 256, Len(s) \div 256,
      255 - (Len(s) % 256), 255 - (Len(s) \div 256)>> \o s \o Adler32(s)

\* what inflating src yields: the bytes produced before the stream ended or
\* was found corrupt, and whether it was well formed
Inflate(src) ==
    IF Len(src) < 7 \/ Take(src, 3) # <<120, 1, 1>>
       \/ src[6] # 255 - src[4] \/ src[7] # 255 - src[5]
    THEN [ok |-> FALSE, out |-> <<>>]
    ELSE LET n == src[4] + 256 * src[5]
             data == Take(Drop(src, 7), n)
             tail == Take(Drop(src, 7 + n), 4)
         IN  [ok |-> Len(data) = n /\ tail = Adler32(data), out |-> data]

\* uLong compressBound(uLong sourceLen)
compressBound(source_len) ==
    source_len + (source_len \div 4096) + (source_len \div 16384)
               + (source_len \div 33554432) + 13

\* int compress(dest, &dest_len, source, source_len).  mem_fail: the
\* library cannot allocate its state; it returns before touching *destLen.
\* A destination that is too short is filled, *destLen staying the capacity.
compress(dest_len, src, mem_fail) ==
    LET z == Deflate(src) IN
    IF mem_fail
    THEN [status |-> Z_MEM_ERROR, dest_len |-> dest_len, written |-> <<>>]
    ELSE IF Len(z) > dest_len
    THEN [status |-> Z_BUF_ERROR, dest_len |-> dest_len,
          written |-> Take(z, dest_len)]
    ELSE [status |-> Z_OK, dest_len |-> Len(z), written |-> z]

\* int uncompress(dest, &dest_len, source, source_len).  len_on_err: whether
\* this build of the library stores the produced count in *destLen when the
\* stream is corrupt (zlib >= 1.2.9 does, older builds leave it untouched).
uncompress(dest_len, src, mem_fail, len_on_err) ==
    LET r == Inflate(src) IN
    IF mem_fail
    THEN [status |-> Z_MEM_ERROR, dest_len |-> dest_len, written |-> <<>>]
    ELSE IF Len(r.out) > dest_len
    THEN [status |-> Z_BUF_ERROR, dest_len |-> dest_len,
          written |-> Take(r.out, dest_len)]
    ELSE IF ~r.ok
    THEN [status |-> Z_DATA_ERROR,
          dest_len |-> IF len_on_err THEN Len(r.out) ELSE dest_len,
          written |-> r.out]
    ELSE [status |-> Z_OK, dest_len |-> Len(r.out), written |-> r.out]

(***************************************************************************)
(* The wrappers                                                            *)
(***************************************************************************)
\* A Vec after dest.set_len(len): the cells the native routine wrote, then
\* cells of the spare capacity that were never written.
VecOf(cap, written, len) ==
    [cap |-> cap,
     bytes |-> Take(written, len) \o Fill(len - Min(len, Len(written)), Uninit)]

zlip_compress_small_capacity(src, mem_fail) ==
    LET source_len == Len(src)
        dest_len == compressBound(source_len)
        r == compress(dest_len, src, mem_fail)
    IN  [vec |-> VecOf(source_len, r.written, r.dest_len),
         returned |-> "Vec", status |-> r.status,
         written |-> Len(r.written), mem_fail |-> mem_fail]

\* pub fn zlip_compress(source: &[u8]) -> Vec<u8>
zlip_compress(src, mem_fail) ==
    LET source_len == Len(src)
        dest_len == compressBound(source_len)
        r == compress(dest_len, src, mem_fail)
    IN  [vec |-> VecOf(dest_len, r.written, r.dest_len),
         returned |-> "Vec", status |-> r.status,
         written |-> Len(r.written), mem_fail |-> mem_fail]

zlib_uncompress_full_len(src, max_dest_len, mem_fail, len_on_err) ==
    LET r == uncompress(max_dest_len, src, mem_fail, len_on_err)
    IN  [vec |-> VecOf(max_dest_len, r.written, max_dest_len),
         returned |-> "Vec", status |-> r.status,
         written |-> Len(r.written), mem_fail |-> mem_fail]

\* pub fn zlib_uncompress(source: &[u8], max_dest_len: usize) -> Vec<u8>
zlib_uncompress(src, max_dest_len, mem_fail, len_on_err) ==
    LET dest_len == max_dest_len
        r == uncompress(dest_len, src, mem_fail, len_on_err)
    IN  [vec |-> VecOf(max_dest_len, r.written, r.dest_len),
         returned |-> "Vec", status |-> r.status,
         written |-> Len(r.written), mem_fail |-> mem_fail]

(***************************************************************************)
(* Callers of the wrappers                                                 *)
(***************************************************************************)
\* "hello, zlib, no exclamation mark".as_bytes()
hello_zlib == <<104, 101, 108, 108, 111, 44, 32, 122, 108, 105, 98, 44, 32, 110, 111, 32, 101, 120, 99, 108, 97, 109, 97, 116, 105, 111, 110, 32, 109, 97, 114, 107>>

Sources == SeqsUpTo(SourceBytes, MaxLen) \cup {hello_zlib}

\* the capacities a caller passes: every one around the generated sources,
\* and the 100 of main
MaxDestLens == 0..(MaxLen + 1) \cup {100}

\* byte sequences a caller may hand to zlib_uncompress: the output of
\* zlip_compress, or that output damaged in transit
Damaged(z) ==
    {z} \cup (IF z = <<>> THEN {}
              ELSE {Take(z, Len(z) - 1),
                    [z EXCEPT ![Len(z)] = (z[Len(z)] + 1) % 256],
                    [z EXCEPT ![1] = 0]})

\* read_gz_file is not running while the buffer wrappers are exercised
CodecInit ==
    /\ source \in Sources
    /\ cpc = "start"
    /\ cret = None
    /\ uarg = None
    /\ uret = None
    /\ file = <<>>
    /\ rpc = "idle"
    /\ handle = "none"
    /\ pos = 0
    /\ past = FALSE
    /\ stalls = 0
    /\ buffer = <<>>
    /\ contents = <<>>
    /\ bytes_read = 0
    /\ last_eof = 0
    /\ panic = "none"
    /\ log = <<>>

\* let hello_zlib_compressed = zlip_compress(hello_zlib);
CallCompress ==
    /\ cpc = "start"
    /\ \E mem_fail \in BOOLEAN :
           cret' = zlip_compress(source, mem_fail)
    /\ cpc' = "compressed"
    /\ UNCHANGED <<source, uarg, uret>>

\* let hello_zlib_uncompressed = zlib_uncompress(&hello_zlib_compressed, 100);
CallUncompress ==
    /\ cpc = "compressed"
    /\ \E input \in Damaged(cret.vec.bytes), max_dest_len \in MaxDestLens,
          mem_fail \in BOOLEAN, len_on_err \in BOOLEAN :
           /\ uarg' = [source |-> input, max_dest_len |-> max_dest_len,
                       intact |-> input = cret.vec.bytes]
           /\ uret' = zlib_uncompress(input, max_dest_len, mem_fail, len_on_err)
    /\ cpc' = "uncompressed"
    /\ UNCHANGED <<source, cret>>

(***************************************************************************)
(* std::str::from_utf8                                                     *)
(***************************************************************************)
IsCont(b) == b >= 128 /\ b <= 191

\* width of the well-formed character that starts at s[i], 0 when there is
\* none (core::str::validations::run_utf8_validation)
CharWidth(s, i) ==
    LET b == s[i]
        n == Len(s) - i + 1
    IN  IF b < 128 THEN 1
        ELSE IF b >= 194 /\ b <= 223
        THEN IF n >= 2 /\ IsCont(s[i + 1]) THEN 2 ELSE 0
        ELSE IF b >= 224 /\ b <= 239
        THEN IF /\ n >= 3
                /\ IF b = 224 THEN s[i + 1] >= 160 /\ s[i + 1] <= 191
                   ELSE IF b = 237 THEN s[i + 1] >= 128 /\ s[i + 1] <= 159
                   ELSE IsCont(s[i + 1])
                /\ IsCont(s[i + 2])
             THEN 3 ELSE 0
        ELSE IF b >= 240 /\ b <= 244
        THEN IF /\ n >= 4
                /\ IF b = 240 THEN s[i + 1] >= 144 /\ s[i + 1] <= 191
                   ELSE IF b = 244 THEN s[i + 1] >= 128 /\ s[i + 1] <= 143
                   ELSE IsCont(s[i + 1])
                /\ IsCont(s[i + 2])
                /\ IsCont(s[i + 3])
             THEN 4 ELSE 0
        ELSE 0

RECURSIVE ValidFrom(_, _)
ValidFrom(s, i) ==
    IF i > Len(s) THEN TRUE
    ELSE LET w == CharWidth(s, i)
         IN  IF w = 0 THEN FALSE ELSE ValidFrom(s, i + w)

from_utf8_ok(s) == ValidFrom(s, 1)

(***************************************************************************)
(* The native gzip file handle                                             *)
(***************************************************************************)
\* (buffer.len() - 1) as c_uint
ReadRequest == BufferLen - 1

\* usize arithmetic is modular; the modulus stands for 2^64 and only has to
\* exceed every buffer length for the cast of a negative c_int to land
\* outside the buffer, as it does on the real width
UsizeModulus == 2 ^ 30

AsUsize(i) == i % UsizeModulus

\* int gzeof(gzFile file): the end-of-file indicator, set by a read that
\* asked for more than was left
gzeof(p) == IF p THEN 1 ELSE 0

\* int gzread(gzFile file, voidp buf, unsigned len): the outcomes the
\* handle may deliver at cursor c when `len` bytes are asked for.
\*   data:  the next bytes, short only at the end of the file
\*   stall: zero bytes although the end has not been reached
\*   error: -1
gzread(f, c, len, stalled) ==
    {[ret |-> Min(len, Len(f) - c), data |-> Take(Drop(f, c), len),
      pos |-> c + Min(len, Len(f) - c), past |-> Len(f) - c < len,
      stalls |-> stalled]}
    \cup (IF stalled < MaxStalls /\ c < Len(f)
          THEN {[ret |-> 0, data |-> <<>>, pos |-> c, past |-> FALSE,
                 stalls |-> stalled + 1]}
          ELSE {})
    \cup {[ret |-> -1, data |-> <<>>, pos |-> c, past |-> FALSE,
           stalls |-> stalled]}

(***************************************************************************)
(* read_gz_file                                                            *)
(***************************************************************************)
\* byte values the generated file contents are drawn from: 'a', the two
\* bytes of U+00E9 (C3 A9) and the lead and continuation of U+2082 (E2 82 82)
FileBytes == {97, 195, 169, 226, 130}

Files == SeqsUpTo(FileBytes, MaxFileLen)

\* the state at entry of read_gz_file; the buffer wrappers are not running
ReaderInit ==
    /\ file \in Files
    /\ rpc = "start"
    /\ handle = "none"
    /\ pos = 0
    /\ past = FALSE
    /\ stalls = 0
    /\ buffer = Fill(BufferLen, 0)
    /\ contents = <<>>
    /\ bytes_read = 0
    /\ last_eof = 0
    /\ panic = "none"
    /\ log = <<>>
    /\ source = <<>>
    /\ cpc = "idle"
    /\ cret = None
    /\ uarg = None
    /\ uret = None

AfterOpen_no_null_check(h) == "loop_test"

\* if file.is_null() { panic!(...) }
AfterOpen(h) == IF h = "null" THEN "panicked" ELSE "loop_test"

\* while gzeof(file) == 0
LoopContinues(eof) == eof = 0

\* let s = std::str::from_utf8(&buffer[..(bytes_read as usize)]).unwrap();
\* contents.push_str(s);
AppendChunk(buf, n, acc) ==
    IF AsUsize(n) > Len(buf)
    THEN [panic |-> "slice_index", contents |-> acc]
    ELSE IF ~from_utf8_ok(Take(buf, AsUsize(n)))
    THEN [panic |-> "utf8", contents |-> acc]
    ELSE [panic |-> "none", contents |-> acc \o Take(buf, AsUsize(n))]

\* let file = gzopen(c_name.as_ptr(), c_mode.as_ptr());
GzOpen ==
    /\ rpc = "start"
    /\ \E h \in {"open", "null"} :
           /\ handle' = h
           /\ rpc' = AfterOpen(h)
           /\ panic' = IF AfterOpen(h) = "panicked" THEN "open_failed" ELSE "none"
    /\ log' = Append(log, [fn |-> "gzopen", on |-> handle])
    /\ UNCHANGED <<file, pos, past, stalls, buffer, contents, bytes_read, last_eof>>

\* while gzeof(file) == 0
GzEof ==
    /\ rpc = "loop_test"
    /\ log' = Append(log, [fn |-> "gzeof", on |-> handle])
    /\ last_eof' = gzeof(past)
    /\ rpc' = IF LoopContinues(gzeof(past)) THEN "read" ELSE "close"
    /\ UNCHANGED <<file, handle, pos, past, stalls, buffer, contents, bytes_read, panic>>

\* the body of the loop
GzRead ==
    /\ rpc = "read"
    /\ log' = Append(log, [fn |-> "gzread", on |-> handle])
    /\ \E r \in gzread(file, pos, ReadRequest, stalls) :
           LET buf == r.data \o Drop(buffer, Len(r.data))
               step == AppendChunk(buf, r.ret, contents)
           IN  /\ bytes_read' = r.ret
               /\ pos' = r.pos
               /\ past' = r.past
               /\ stalls' = r.stalls
               /\ buffer' = buf
               /\ contents' = step.contents
               /\ panic' = step.panic
               /\ rpc' = IF step.panic = "none" THEN "loop_test" ELSE "panicked"
    /\ UNCHANGED <<file, handle, last_eof>>

\* gzclose(file); contents
GzClose ==
    /\ rpc = "close"
    /\ log' = Append(log, [fn |-> "gzclose", on |-> handle])
    /\ handle' = "closed"
    /\ rpc' = "returned"
    /\ UNCHANGED <<file, pos, past, stalls, buffer, contents, bytes_read, last_eof, panic>>

(***************************************************************************)
(* Specifications                                                          *)
(***************************************************************************)
CodecNext ==
    \/ CallCompress /\ UNCHANGED rvars
    \/ CallUncompress /\ UNCHANGED rvars

ReaderNext ==
    \/ GzOpen /\ UNCHANGED cvars
    \/ GzEof /\ UNCHANGED cvars
    \/ GzRead /\ UNCHANGED cvars
    \/ GzClose /\ UNCHANGED cvars

\* the caller of the buffer wrappers
CodecSpec == CodecInit /\ [][CodecNext]_vars

\* a call of read_gz_file
ReaderSpec == ReaderInit /\ [][ReaderNext]_vars

(***************************************************************************)
(* Properties of the buffer wrappers (checked under CodecSpec)             *)
(***************************************************************************)
Compressed == cpc \in {"compressed", "uncompressed"}

Uncompressed == cpc = "uncompressed"

\* the native pair behaved as a codec: neither call ran out of memory and
\* the output of zlip_compress reached zlib_uncompress undamaged
CodecBehaved == ~cret.mem_fail /\ ~uret.mem_fail /\ uarg.intact

\* C1: round trip.  For every source s, the empty one included, and every
\* max_dest_len >= len(s), zlib_uncompress(zlip_compress(s), max_dest_len)
\* returns exactly s when the native pair behaves as a correct codec.
C1_RoundTrip ==
    (Uncompressed /\ CodecBehaved /\ uarg.max_dest_len >= Len(source))
        => (uret.returned = "Vec" /\ uret.vec.bytes = source)

\* the round trip of main: hello_zlib through both wrappers with capacity 100
C1_Witness ==
    /\ Uncompressed /\ CodecBehaved
    /\ source = hello_zlib
    /\ uarg.max_dest_len = 100
    /\ uarg.source # source
    /\ uret.vec.bytes = hello_zlib

\* C2: with max_dest_len below the true decompressed size of the source,
\* zlib_uncompress fails with BufferTooSmall and hands no buffer back.
C2_BufferTooSmall ==
    (/\ Uncompressed /\ ~uret.mem_fail
     /\ Inflate(uarg.source).ok
     /\ uarg.max_dest_len < Len(Inflate(uarg.source).out))
        => uret.returned = "BufferTooSmall"

\* C3: whenever the native compress returns a status other than Z_OK,
\* zlip_compress fails with a CompressionError instead of returning a
\* buffer sized by the in/out length.
C3_CompressionError ==
    (Compressed /\ cret.status # Z_OK) => cret.returned = "CompressionError"

\* C7: truncation invariant.  Whatever the native routine's outcome, the
\* returned Vec is no longer than the capacity allocated for the call:
\* compressBound(len(source)) for compress, max_dest_len for uncompress.
C7_Truncation ==
    /\ Compressed =>
           /\ cret.vec.cap = compressBound(Len(source))
           /\ Len(cret.vec.bytes) <= cret.vec.cap
    /\ Uncompressed =>
           /\ uret.vec.cap = uarg.max_dest_len
           /\ Len(uret.vec.bytes) <= uret.vec.cap

\* both native calls failed and the second Vec fills its whole capacity
C7_Witness ==
    /\ Uncompressed
    /\ cret.status # Z_OK
    /\ uret.status # Z_OK
    /\ uret.vec.cap > 0
    /\ Len(uret.vec.bytes) = uret.vec.cap

\* C8: no uninitialized byte is observable.  The length given to set_len
\* is the number of bytes the native routine wrote in that call, also when
\* the routine fails without updating the in/out length.
C8_NoUninit ==
    /\ Compressed =>
           /\ Len(cret.vec.bytes) = cret.written
           /\ \A i \in 1..Len(cret.vec.bytes) : cret.vec.bytes[i] # Uninit
    /\ Uncompressed =>
           /\ Len(uret.vec.bytes) = uret.written
           /\ \A i \in 1..Len(uret.vec.bytes) : uret.vec.bytes[i] # Uninit

(***************************************************************************)
(* Properties of read_gz_file (checked under ReaderSpec)                   *)
(***************************************************************************)
Ended == rpc \in {"returned", "panicked"}

Opened == handle \in {"open", "closed"}

Calls(fn) == {i \in 1..Len(log) : log[i].fn = fn}

\* C4: once gzopen has returned a non-null handle, gzclose is called on it
\* on every exit path of read_gz_file: end of stream, a negative gzread, a
\* chunk that is not valid UTF-8.
C4_ClosedOnEveryExit ==
    (Ended /\ Opened) => (handle = "closed" /\ Calls("gzclose") # {})

\* C5: for a file whose content is valid UTF-8 text T longer than one read
\* chunk, read_gz_file returns exactly T wherever the chunk boundaries
\* fall, also inside a multi-byte character.
C5_Completeness ==
    (/\ Ended /\ Opened
     /\ bytes_read >= 0
     /\ from_utf8_ok(file)
     /\ Len(file) > ReadRequest)
        => (rpc = "returned" /\ contents = file)

\* C6: a negative return of gzread ends the call with a read error carrying
\* that code; the value is never used as a chunk length, nothing is
\* appended for that read and no text is returned.
C6_ReadError ==
    bytes_read < 0 =>
        /\ rpc = "panicked"
        /\ panic = "read_error"

\* C9: gzeof, gzread and gzclose are only invoked on a handle that gzopen
\* returned non-null and that is not closed yet; a null handle ends the
\* call at once with no further native call; gzclose runs at most once and
\* nothing follows it.
C9_Lifecycle ==
    /\ \A i \in 1..Len(log) :
           log[i].fn \in {"gzeof", "gzread", "gzclose"} => log[i].on = "open"
    /\ Cardinality(Calls("gzclose")) <= 1
    /\ \A i \in Calls("gzclose") : i = Len(log)
    /\ handle = "null" => (rpc = "panicked" /\ Len(log) = 1)

\* a call that read at least two chunks, met the end of the stream and
\* closed the handle
C9_Witness ==
    /\ rpc = "returned"
    /\ handle = "closed"
    /\ Cardinality(Calls("gzread")) >= 2
    /\ Calls("gzclose") = {Len(log)}

\* C10: the loop of read_gz_file is left only when gzeof reports true, and
\* for a handle that reaches the end of the stream after finitely many
\* reads the call leaves the loop, closes the handle and returns.  Stated
\* for the runs in which the handle serves valid text without a read error.
C10_Termination ==
    (/\ Opened
     /\ bytes_read >= 0
     /\ from_utf8_ok(file)
     /\ rpc \in {"close", "returned", "panicked"})
        => /\ last_eof # 0
           /\ Ended => (rpc = "returned" /\ handle = "closed")

====
